---- MODULE Spec2Model ----
(***************************************************************************)
(* Model of shared/live_nodes.go: the live-node directory                  *)
(* (AlternatorLiveNodes).  Callers run NextNode, Start, Stop and           *)
(* UpdateLiveNodes concurrently; one background goroutine (the idle        *)
(* updater) refreshes the snapshot on ticker ticks and on refresh signals. *)
(* Every access to an atomic field, to the channel, to the context or to   *)
(* the wall clock is one step of the process that makes it.                *)
(***************************************************************************)
EXTENDS Integers, Sequences, FiniteSets, TLC

VARIABLES
    constructed,        \* NewAlternatorLiveNodes returned (out, nil)
    cfg,                \* aln.cfg (immutable after construction)
    initialNodes,       \* aln.initialNodes
    liveNodes,          \* aln.liveNodes (the published snapshot)
    nextLiveNodeIdx,    \* aln.nextLiveNodeIdx
    nextUpdate,         \* aln.nextUpdate (unix seconds)
    idleUpdaterStarted, \* aln.idleUpdaterStarted
    ctxDone,            \* aln.ctx is cancelled
    updateSignal,       \* number of elements buffered in aln.updateSignal
    tickReady,          \* the ticker's channel t.C holds a tick
    now,                \* time.Now().UTC().Unix()
    endpoint,           \* what a GET of /localnodes may answer in this behaviour
    call,               \* per caller: position in its current operation, locals
    idle,               \* the idle updater goroutine: position, locals
    hist                \* history: what the properties refer to, never read by the code

vars == <<constructed, cfg, initialNodes, liveNodes, nextLiveNodeIdx, nextUpdate,
          idleUpdaterStarted, ctxDone, updateSignal, tickReady, now, endpoint, call,
          idle, hist>>

shared == <<liveNodes, nextLiveNodeIdx, nextUpdate, idleUpdaterStarted, ctxDone,
            updateSignal, tickReady, now>>

----------------------------------------------------------------------------
(* Bounds of the model *)

\* operations the callers start in one behaviour
MaxOps == 3
\* the wall clock runs from 1 to MaxTime seconds
MaxTime == 3
\* ticks the ticker delivers in one behaviour
MaxTicks == 1
\* Durations are counted in fractions of a second (UnitsPerSecond of them in
\* one second), so that a period may be a fraction of a second; the clock is
\* counted in whole seconds (Unix()).
UnitsPerSecond == 2

Callers == {1, 2}

\* A host string that url.Parse rejects (invalid escape).
BadHost == "%zz"

Seconds(n) == n * UnitsPerSecond

\* ALNConfig: the periods; no rack and no datacenter unless an option sets one
Config(up, ip) ==
    [UpdatePeriod |-> up, IdleUpdatePeriod |-> ip, Rack |-> "", Datacenter |-> ""]

\* time.Minute, time.Second * 10
Minute == Seconds(60)
defaultUpdatePeriod == Seconds(10)

\* NewDefaultALNConfig: the configuration the options are applied to
NewDefaultALNConfig == Config(defaultUpdatePeriod, Minute)

\* shared.Config, the helper's configuration, as far as the directory sees it
HelperConfig(up, ip, rack, datacenter) ==
    [NodesListUpdatePeriod |-> up, IdleNodesListUpdatePeriod |-> ip,
     Rack |-> rack, Datacenter |-> datacenter]

\* An ALNOption: the field of ALNConfig it sets, and the value.
ALNOption(field, value) == [field |-> field, value |-> value]

\* ToALNOptions: the update period always; rack, datacenter and idle period
\* only when they are not the zero value
ToALNOptions(c) ==
    <<ALNOption("UpdatePeriod", c.NodesListUpdatePeriod)>>
    \o (IF c.Rack # "" THEN <<ALNOption("Rack", c.Rack)>> ELSE <<>>)
    \o (IF c.Datacenter # "" THEN <<ALNOption("Datacenter", c.Datacenter)>> ELSE <<>>)
    \o (IF c.IdleNodesListUpdatePeriod # 0
        THEN <<ALNOption("IdleUpdatePeriod", c.IdleNodesListUpdatePeriod)>>
        ELSE <<>>)

RECURSIVE ApplyOptions(_, _)
\* for _, opt := range options { opt(&cfg) }
ApplyOptions(config, options) ==
    IF options = <<>> THEN config
    ELSE ApplyOptions([config EXCEPT ![Head(options).field] = Head(options).value],
                      Tail(options))

\* ToALNConfig: the options applied to the default configuration, as
\* NewAlternatorLiveNodes applies them
ToALNConfig(c) == ApplyOptions(NewDefaultALNConfig, ToALNOptions(c))

WithALNRack(config, rack) == [config EXCEPT !.Rack = rack]

WithALNDatacenter(config, datacenter) == [config EXCEPT !.Datacenter = datacenter]

\* Configurations the options may build: every combination of a disabled
\* (zero, negative), a sub-second and a one-second period.
Periods == {Seconds(-1), 0, 1, Seconds(1)}
Configs == {Config(up, ip) : up \in Periods, ip \in Periods}

\* initialNodes arguments handed to the constructor
BootstrapInputs == {<<>>, <<BadHost>>, <<"n1">>, <<"n1", "n2">>}

\* Host lists a /localnodes response body may carry.
DiscoveryBodies == {<<>>, <<BadHost>>, <<"n3">>, <<"n2", BadHost, "n3">>}

\* What one HTTP GET of /localnodes may produce.
Failures ==
    {[kind |-> k, body |-> <<>>] : k \in {"transport", "non200", "badjson"}}
Responses ==
    Failures \cup {[kind |-> "ok", body |-> b] : b \in DiscoveryBodies}

\* The endpoint cannot be reached.
Down == {[kind |-> "transport", body |-> <<>>]}

\* The endpoint answers 200 with a JSON list of hosts.
Answers == {[kind |-> "ok", body |-> b] : b \in DiscoveryBodies}

----------------------------------------------------------------------------
(* Pure helpers *)

Range(s) == {s[i] : i \in 1..Len(s)}

\* url.Parse(fmt.Sprintf("%s://%s:%d", scheme, node, port)) succeeds
ParseOK(host) == host # BadHost

\* int64(d.Seconds()): the duration in seconds, truncated toward zero
PeriodSeconds(d) ==
    IF d >= 0 THEN d \div UnitsPerSecond ELSE -((-d) \div UnitsPerSecond)

NewAlternatorLiveNodesUnchecked(input) ==
    IF \E i \in 1..Len(input) : ~ParseOK(input[i])
    THEN [ok |-> FALSE, nodes |-> <<>>]
    ELSE [ok |-> TRUE, nodes |-> input]

\* NewAlternatorLiveNodes: the error cases and the parsed bootstrap list
NewAlternatorLiveNodes(input) ==
    IF Len(input) = 0 THEN [ok |-> FALSE, nodes |-> <<>>]
    ELSE IF \E i \in 1..Len(input) : ~ParseOK(input[i])
         THEN [ok |-> FALSE, nodes |-> <<>>]
         ELSE [ok |-> TRUE, nodes |-> input]

\* getNodes: the result (nodes, err) for one response
getNodes(resp) ==
    IF resp.kind # "ok"
    THEN [nodes |-> <<>>, err |-> resp.kind]
    ELSE [nodes |-> SelectSeq(resp.body, ParseOK), err |-> "nil"]

LocalNodesQueryRackOnly(rack, datacenter) ==
    IF rack # "" THEN <<"rack=", rack>> ELSE <<>>

\* nextAsLocalNodesURL: the query string, as the pieces it is concatenated of
LocalNodesQuery(rack, datacenter) ==
    LET r == IF rack # "" THEN <<"rack=", rack>> ELSE <<>>
        amp == IF datacenter # "" /\ r # <<>> THEN <<"&">> ELSE <<>>
        d == IF datacenter # "" THEN <<"dc=", datacenter>> ELSE <<>>
    IN  r \o amp \o d

\* the query of CheckIfRackDatacenterFeatureIsSupported's second URL
FakeRackQuery == <<"rack=", "fakeRack">>

nextAsURLWithPathNoQuery(node, path, query) ==
    [host |-> node, path |-> path, query |-> <<>>]

\* nextAsURLWithPath: a copy of the node (which carries no path and no query)
\* with the path set, and the query set if it is not empty
nextAsURLWithPath(node, path, query) ==
    [host |-> node, path |-> path, query |-> query]

\* fmt.Errorf("failed to read list of nodes: %v", err): a new error value
Errorf(err) ==
    CASE err = "transport" -> "failed to read list of nodes: transport"
      [] err = "non200" -> "failed to read list of nodes: non200"
      [] err = "badjson" -> "failed to read list of nodes: badjson"

EmptyListError == "node returned empty list, datacenter or rack might be incorrect"

HostEmptyListError == "host returned empty list"

LoadNodesBootstrap(live, initial) == initial

\* nextNode, first statement: the list the selection indexes
LoadNodes(live, initial) == IF Len(live) = 0 THEN initial ELSE live

SelectIndexTorn(counter, nodes, live) == counter % Len(live)

\* nextNode, index expression: counter % uint64(len(nodes)), 0-based
SelectIndex(counter, nodes, live) == counter % Len(nodes)

----------------------------------------------------------------------------
(* Process-local state *)

NoCall ==
    [pc |-> "idle", op |-> "none", nextUpdate |-> 0, current |-> 0,
     nodes |-> <<>>, idx |-> 0, ret |-> "", won |-> FALSE, sent |-> FALSE,
     newNodes |-> <<>>, err |-> "nil", avail |-> {}, pubDuring |-> FALSE,
     uris |-> <<>>, gets |-> <<>>, hostsWithFakeRack |-> <<>>,
     supported |-> FALSE]

NoIdle ==
    [pc |-> "none", cause |-> "none", current |-> 0, nodes |-> <<>>,
     ret |-> "", newNodes |-> <<>>, err |-> "nil"]

\* ops, ticks: what the bounds count; launched: goroutines started by
\* startIdleUpdater; published: some refresh stored a snapshot; log: the
\* selections in cursor order, kept only when trace is set; helper: the
\* helper configuration the directory's configuration was converted from,
\* if it was.
History(budget, trace) ==
    [ops |-> 0, budget |-> budget, ticks |-> 0, launched |-> 0,
     published |-> FALSE, trace |-> trace, log |-> <<>>, helper |-> <<>>]

\* The state NewAlternatorLiveNodes leaves, for one choice of its arguments
\* and of the environment.
InitWith(inputs, configs, responses, budget, trace) ==
    \E input \in inputs, c \in configs :
        LET r == NewAlternatorLiveNodes(input) IN
        /\ constructed = r.ok
        /\ cfg = c
        /\ initialNodes = r.nodes
        /\ liveNodes = r.nodes
        /\ nextLiveNodeIdx = 0
        /\ nextUpdate = 0
        /\ idleUpdaterStarted = FALSE
        /\ ctxDone = FALSE
        /\ updateSignal = 0
        /\ tickReady = FALSE
        /\ now = 1
        /\ endpoint = responses
        /\ call = [k \in Callers |-> NoCall]
        /\ idle = NoIdle
        /\ hist = History(budget, trace)

Init == InitWith(BootstrapInputs, Configs, Responses, MaxOps, TRUE)

----------------------------------------------------------------------------
(* Shared pieces of the operations *)

LaunchesWithoutCAS == cfg.IdleUpdatePeriod > 0

LaunchesWhenNotNegative == cfg.IdleUpdatePeriod >= 0 /\ idleUpdaterStarted = FALSE

\* startIdleUpdater: the period check and the CompareAndSwap(false, true)
\* both pass, so this call launches the goroutine.
Launches == cfg.IdleUpdatePeriod > 0 /\ idleUpdaterStarted = FALSE

\* startIdleUpdater as a whole: the flag, the goroutine (with a fresh ticker).
startIdleUpdater ==
    /\ idleUpdaterStarted' = (idleUpdaterStarted \/ cfg.IdleUpdatePeriod > 0)
    /\ idle' = IF Launches THEN [NoIdle EXCEPT !.pc = "select"] ELSE idle
    /\ tickReady' = IF Launches THEN FALSE ELSE tickReady
    /\ hist' = [hist EXCEPT !.ops = @ + 1,
                            !.launched = @ + (IF Launches THEN 1 ELSE 0)]

TriggerDisabledWhenNegative == cfg.UpdatePeriod < 0

\* triggerUpdate returns at once
TriggerDisabled == cfg.UpdatePeriod <= 0

ShouldPublishAnyList(r) == r.err = "nil"

\* UpdateLiveNodes stores the result of getNodes
ShouldPublish(r) == r.err = "nil" /\ Len(r.nodes) > 0

PublishedOrBootstrap(r, live) ==
    IF ShouldPublish(r) THEN r.nodes
    ELSE IF r.err = "nil" THEN initialNodes ELSE live

\* The snapshot UpdateLiveNodes leaves published
Published(r, live) == IF ShouldPublish(r) THEN r.nodes ELSE live

\* History: callers in an operation see one more published snapshot.
NotePublish(cl, r) ==
    IF ~ShouldPublish(r) THEN cl
    ELSE [c \in Callers |->
            IF cl[c].pc = "idle" THEN cl[c]
            ELSE [cl[c] EXCEPT !.avail = @ \cup Range(Published(r, liveNodes)),
                               !.pubDuring = TRUE]]

\* History: one more selection, in cursor order.
NoteSelection(h, nn, nodes, i) ==
    IF h.trace /\ i < Len(nodes)
    THEN [h EXCEPT !.log = Append(@, [nn |-> nn, nodes |-> nodes, idx |-> i])]
    ELSE h

\* A caller holds nothing between two operations, so a new operation is
\* given to the lowest caller that is free.
CanBegin(c) ==
    /\ constructed
    /\ call[c].pc = "idle"
    /\ hist.ops < hist.budget
    /\ \A d \in Callers : d < c => call[d].pc # "idle"

----------------------------------------------------------------------------
(* Callers *)

\* Start()
Start(c) ==
    /\ CanBegin(c)
    /\ startIdleUpdater
    /\ UNCHANGED <<constructed, cfg, endpoint, initialNodes, liveNodes,
                   nextLiveNodeIdx, nextUpdate, ctxDone, updateSignal, now, call>>

StopOnce(c) ==
    /\ CanBegin(c)
    /\ ~ctxDone
    /\ ctxDone' = TRUE
    /\ hist' = [hist EXCEPT !.ops = @ + 1]
    /\ UNCHANGED <<constructed, cfg, endpoint, initialNodes, liveNodes,
                   nextLiveNodeIdx, nextUpdate, idleUpdaterStarted, updateSignal,
                   tickReady, now, call, idle>>

\* Stop(): stopFn is the cancel function of the constructor's context, never
\* nil, and cancelling a cancelled context does nothing
Stop(c) ==
    /\ CanBegin(c)
    /\ ctxDone' = TRUE
    /\ hist' = [hist EXCEPT !.ops = @ + 1]
    /\ UNCHANGED <<constructed, cfg, endpoint, initialNodes, liveNodes,
                   nextLiveNodeIdx, nextUpdate, idleUpdaterStarted, updateSignal,
                   tickReady, now, call, idle>>

\* NextNode(): aln.startIdleUpdater(), and triggerUpdate's period check
NextNodeBegin(c) ==
    /\ CanBegin(c)
    /\ startIdleUpdater
    /\ call' = [call EXCEPT ![c] =
                  [NoCall EXCEPT !.op = "NextNode",
                                 !.pc = IF TriggerDisabled THEN "nn_load" ELSE "tu_load",
                                 !.avail = Range(liveNodes)]]
    /\ UNCHANGED <<constructed, cfg, endpoint, initialNodes, liveNodes,
                   nextLiveNodeIdx, nextUpdate, ctxDone, updateSignal, now>>

\* triggerUpdate: nextUpdate := aln.nextUpdate.Load()
TriggerLoad(c) ==
    /\ call[c].pc = "tu_load"
    /\ call' = [call EXCEPT ![c].nextUpdate = nextUpdate, ![c].pc = "tu_now"]
    /\ UNCHANGED <<constructed, cfg, endpoint, initialNodes, idle, hist>>
    /\ UNCHANGED shared

\* triggerUpdate: current := time.Now().UTC().Unix(); if nextUpdate < current
TriggerNow(c) ==
    /\ call[c].pc = "tu_now"
    /\ call' = [call EXCEPT ![c] =
                  IF call[c].nextUpdate < now
                  THEN [@ EXCEPT !.current = now, !.pc = "tu_cas"]
                  ELSE [@ EXCEPT !.nextUpdate = 0, !.pc = "nn_load"]]
    /\ UNCHANGED <<constructed, cfg, endpoint, initialNodes, idle, hist>>
    /\ UNCHANGED shared

\* triggerUpdate: aln.nextUpdate.CompareAndSwap(nextUpdate, current+period).
\* The winner's two locals stay in its frame; a loser's are dead.
TriggerCAS(c) ==
    /\ call[c].pc = "tu_cas"
    /\ IF nextUpdate = call[c].nextUpdate
       THEN /\ nextUpdate' = call[c].current + PeriodSeconds(cfg.UpdatePeriod)
            /\ call' = [call EXCEPT ![c].won = TRUE, ![c].pc = "tu_send"]
       ELSE /\ call' = [call EXCEPT ![c].nextUpdate = 0, ![c].current = 0,
                                    ![c].pc = "nn_load"]
            /\ UNCHANGED nextUpdate
    /\ UNCHANGED <<constructed, cfg, endpoint, initialNodes, liveNodes,
                   nextLiveNodeIdx, idleUpdaterStarted, ctxDone, updateSignal,
                   tickReady, now, idle, hist>>

TriggerSendBlocking(c) ==
    /\ call[c].pc = "tu_send"
    /\ updateSignal = 0
    /\ updateSignal' = 1
    /\ call' = [call EXCEPT ![c].sent = TRUE, ![c].pc = "nn_load"]
    /\ UNCHANGED <<constructed, cfg, endpoint, initialNodes, liveNodes,
                   nextLiveNodeIdx, nextUpdate, idleUpdaterStarted, ctxDone,
                   tickReady, now, idle, hist>>

\* triggerUpdate: select { case aln.updateSignal <- struct{}{}: default: }
\* on a channel of capacity 1
TriggerSend(c) ==
    /\ call[c].pc = "tu_send"
    /\ updateSignal' = 1
    /\ call' = [call EXCEPT ![c].sent = (updateSignal = 0), ![c].pc = "nn_load"]
    /\ UNCHANGED <<constructed, cfg, endpoint, initialNodes, liveNodes,
                   nextLiveNodeIdx, nextUpdate, idleUpdaterStarted, ctxDone,
                   tickReady, now, idle, hist>>

\* nextNode: nodes := *aln.liveNodes.Load(), with the fallback
NodeLoad(c) ==
    /\ call[c].pc = "nn_load"
    /\ call' = [call EXCEPT ![c].nodes = LoadNodes(liveNodes, initialNodes),
                            ![c].pc = "nn_add"]
    /\ UNCHANGED <<constructed, cfg, endpoint, initialNodes, idle, hist>>
    /\ UNCHANGED shared

\* nextNode: nodes[aln.nextLiveNodeIdx.Add(1)%uint64(len(nodes))];
\* an index past the end panics.
NodeAdd(c) ==
    /\ call[c].pc = "nn_add"
    /\ nextLiveNodeIdx' = nextLiveNodeIdx + 1
    /\ LET i == SelectIndex(nextLiveNodeIdx', call[c].nodes, liveNodes) IN
       /\ call' = [call EXCEPT
                  ![c].idx = i,
                  ![c].ret = IF i < Len(call[c].nodes) THEN call[c].nodes[i + 1] ELSE "",
                  ![c].pc = IF i >= Len(call[c].nodes) THEN "panicked"
                            ELSE IF call[c].op = "NextNode" THEN "done" ELSE "get"]
       /\ hist' = NoteSelection(hist, call[c].op = "NextNode", call[c].nodes, i)
    /\ UNCHANGED <<constructed, cfg, endpoint, initialNodes, liveNodes, nextUpdate,
                   idleUpdaterStarted, ctxDone, updateSignal, tickReady, now, idle>>

\* UpdateLiveNodes(): aln.nextAsLocalNodesURL() up to nextNode's snapshot load
UpdateBegin(c) ==
    /\ CanBegin(c)
    /\ call' = [call EXCEPT ![c] =
                  [NoCall EXCEPT !.op = "UpdateLiveNodes",
                                 !.pc = "nn_add",
                                 !.nodes = LoadNodes(liveNodes, initialNodes),
                                 !.avail = Range(liveNodes)]]
    /\ hist' = [hist EXCEPT !.ops = @ + 1]
    /\ UNCHANGED <<constructed, cfg, endpoint, initialNodes, idle>>
    /\ UNCHANGED shared

UpdateGetAppending(c) ==
    /\ call[c].pc = "get"
    /\ \E resp \in endpoint :
         LET r == getNodes(resp) IN
         call' = [call EXCEPT
                    ![c].gets =
                        Append(@, [uri |-> nextAsURLWithPath(call[c].ret, "/localnodes",
                                               LocalNodesQuery(cfg.Rack, cfg.Datacenter)),
                                   resp |-> resp]),
                    ![c].newNodes = IF r.nodes = <<>> THEN <<>> ELSE liveNodes \o r.nodes,
                    ![c].err = r.err,
                    ![c].pc = "publish"]
    /\ UNCHANGED <<constructed, cfg, endpoint, initialNodes, idle, hist>>
    /\ UNCHANGED shared

\* UpdateLiveNodes(): newNodes, err := aln.getNodes(...)
UpdateGet(c) ==
    /\ call[c].pc = "get"
    /\ \E resp \in endpoint :
         LET r == getNodes(resp) IN
         call' = [call EXCEPT
                    ![c].gets =
                        Append(@, [uri |-> nextAsURLWithPath(call[c].ret, "/localnodes",
                                               LocalNodesQuery(cfg.Rack, cfg.Datacenter)),
                                   resp |-> resp]),
                    ![c].newNodes = r.nodes, ![c].err = r.err,
                    ![c].pc = "publish"]
    /\ UNCHANGED <<constructed, cfg, endpoint, initialNodes, idle, hist>>
    /\ UNCHANGED shared

UpdatePublishRetry(c) ==
    /\ call[c].pc = "publish"
    /\ LET r == [nodes |-> call[c].newNodes, err |-> call[c].err] IN
       /\ liveNodes' = Published(r, liveNodes)
       /\ call' = [NotePublish(call, r) EXCEPT
                     ![c].pc = IF r.err # "nil" /\ Len(call[c].gets) < 2
                               THEN "get" ELSE "done"]
       /\ hist' = [hist EXCEPT !.published = @ \/ ShouldPublish(r)]
    /\ UNCHANGED <<constructed, cfg, endpoint, initialNodes, nextLiveNodeIdx,
                   nextUpdate, idleUpdaterStarted, ctxDone, updateSignal, tickReady,
                   now, idle>>

\* UpdateLiveNodes(): if err == nil && len(newNodes) > 0 { Store }; return err
UpdatePublish(c) ==
    /\ call[c].pc = "publish"
    /\ LET r == [nodes |-> call[c].newNodes, err |-> call[c].err] IN
       /\ liveNodes' = Published(r, liveNodes)
       /\ call' = [NotePublish(call, r) EXCEPT ![c].pc = "done"]
       /\ hist' = [hist EXCEPT !.published = @ \/ ShouldPublish(r)]
    /\ UNCHANGED <<constructed, cfg, endpoint, initialNodes, nextLiveNodeIdx,
                   nextUpdate, idleUpdaterStarted, ctxDone, updateSignal, tickReady,
                   now, idle>>

\* the operation returns to its caller
Return(c) ==
    /\ call[c].pc = "done"
    /\ call' = [call EXCEPT ![c] = NoCall]
    /\ UNCHANGED <<constructed, cfg, endpoint, initialNodes, idle, hist>>
    /\ UNCHANGED shared

----------------------------------------------------------------------------
(* The two topology checks.  uris: the URLs built so far; gets: the GETs   *)
(* issued so far, each with the URL it was sent to and what came back.     *)

\* CheckIfRackAndDatacenterSetCorrectly(): the early return, or
\* aln.nextAsLocalNodesURL() up to nextNode's snapshot load
CheckSetBegin(c) ==
    /\ CanBegin(c)
    /\ call' = [call EXCEPT ![c] =
                  IF cfg.Rack = "" /\ cfg.Datacenter = ""
                  THEN [NoCall EXCEPT !.op = "CheckSet", !.pc = "ck_done",
                                      !.avail = Range(liveNodes)]
                  ELSE [NoCall EXCEPT !.op = "CheckSet", !.pc = "ck_add",
                                      !.nodes = LoadNodes(liveNodes, initialNodes),
                                      !.avail = Range(liveNodes)]]
    /\ hist' = [hist EXCEPT !.ops = @ + 1]
    /\ UNCHANGED <<constructed, cfg, endpoint, initialNodes, idle>>
    /\ UNCHANGED shared

\* CheckIfRackDatacenterFeatureIsSupported(): baseURI := nextAsURLWithPath(...)
\* up to nextNode's snapshot load
CheckFeatureBegin(c) ==
    /\ CanBegin(c)
    /\ call' = [call EXCEPT ![c] =
                  [NoCall EXCEPT !.op = "CheckFeature", !.pc = "ck_add",
                                 !.nodes = LoadNodes(liveNodes, initialNodes),
                                 !.avail = Range(liveNodes)]]
    /\ hist' = [hist EXCEPT !.ops = @ + 1]
    /\ UNCHANGED <<constructed, cfg, endpoint, initialNodes, idle>>
    /\ UNCHANGED shared

\* the query of the URL a check builds next
CheckQuery(c) ==
    IF call[c].op = "CheckSet" THEN LocalNodesQuery(cfg.Rack, cfg.Datacenter)
    ELSE IF Len(call[c].uris) = 0 THEN <<>>
    ELSE FakeRackQuery

CheckAddSticky(c) ==
    /\ call[c].pc = "ck_add"
    /\ nextLiveNodeIdx' = nextLiveNodeIdx
    /\ LET i == SelectIndex(nextLiveNodeIdx', call[c].nodes, liveNodes) IN
       /\ call' = [call EXCEPT
                  ![c].idx = i,
                  ![c].uris =
                      IF i < Len(call[c].nodes)
                      THEN Append(@, nextAsURLWithPath(call[c].nodes[i + 1],
                                                       "/localnodes", CheckQuery(c)))
                      ELSE @,
                  ![c].pc = IF i >= Len(call[c].nodes) THEN "panicked"
                            ELSE IF call[c].op = "CheckSet" THEN "ck_get"
                            ELSE IF Len(call[c].uris) = 0 THEN "ck_load"
                            ELSE "ck_fake"]
       /\ hist' = NoteSelection(hist, FALSE, call[c].nodes, i)
    /\ UNCHANGED <<constructed, cfg, endpoint, initialNodes, liveNodes, nextUpdate,
                   idleUpdaterStarted, ctxDone, updateSignal, tickReady, now, idle>>

\* nextNode's Add inside nextAsURLWithPath, and the URL built on the node
CheckAdd(c) ==
    /\ call[c].pc = "ck_add"
    /\ nextLiveNodeIdx' = nextLiveNodeIdx + 1
    /\ LET i == SelectIndex(nextLiveNodeIdx', call[c].nodes, liveNodes) IN
       /\ call' = [call EXCEPT
                  ![c].idx = i,
                  ![c].uris =
                      IF i < Len(call[c].nodes)
                      THEN Append(@, nextAsURLWithPath(call[c].nodes[i + 1],
                                                       "/localnodes", CheckQuery(c)))
                      ELSE @,
                  ![c].pc = IF i >= Len(call[c].nodes) THEN "panicked"
                            ELSE IF call[c].op = "CheckSet" THEN "ck_get"
                            ELSE IF Len(call[c].uris) = 0 THEN "ck_load"
                            ELSE "ck_fake"]
       /\ hist' = NoteSelection(hist, FALSE, call[c].nodes, i)
    /\ UNCHANGED <<constructed, cfg, endpoint, initialNodes, liveNodes, nextUpdate,
                   idleUpdaterStarted, ctxDone, updateSignal, tickReady, now, idle>>

\* fakeRackURI := nextAsURLWithPath(...): nextNode's snapshot load
CheckLoad(c) ==
    /\ call[c].pc = "ck_load"
    /\ call' = [call EXCEPT ![c].nodes = LoadNodes(liveNodes, initialNodes),
                            ![c].pc = "ck_add"]
    /\ UNCHANGED <<constructed, cfg, endpoint, initialNodes, idle, hist>>
    /\ UNCHANGED shared

CheckSetGetPublishing(c) ==
    /\ call[c].pc = "ck_get"
    /\ \E resp \in endpoint :
         LET r == getNodes(resp) IN
         /\ call' = [call EXCEPT
                    ![c].gets = Append(@, [uri |-> call[c].uris[1], resp |-> resp]),
                    ![c].newNodes = r.nodes,
                    ![c].err = IF r.err # "nil" THEN Errorf(r.err)
                               ELSE IF Len(r.nodes) = 0 THEN EmptyListError
                               ELSE "nil",
                    ![c].pc = "ck_done"]
         /\ liveNodes' = Published(r, liveNodes)
    /\ UNCHANGED <<constructed, cfg, endpoint, initialNodes, idle, hist,
                   nextLiveNodeIdx, nextUpdate, idleUpdaterStarted, ctxDone,
                   updateSignal, tickReady, now>>

\* CheckIfRackAndDatacenterSetCorrectly(): getNodes and the three returns
CheckSetGet(c) ==
    /\ call[c].pc = "ck_get"
    /\ \E resp \in endpoint :
         LET r == getNodes(resp) IN
         call' = [call EXCEPT
                    ![c].gets = Append(@, [uri |-> call[c].uris[1], resp |-> resp]),
                    ![c].newNodes = r.nodes,
                    ![c].err = IF r.err # "nil" THEN Errorf(r.err)
                               ELSE IF Len(r.nodes) = 0 THEN EmptyListError
                               ELSE "nil",
                    ![c].pc = "ck_done"]
    /\ UNCHANGED <<constructed, cfg, endpoint, initialNodes, idle, hist>>
    /\ UNCHANGED shared

\* hostsWithFakeRack, err := aln.getNodes(fakeRackURI)
CheckFeatureGetFake(c) ==
    /\ call[c].pc = "ck_fake"
    /\ \E resp \in endpoint :
         LET r == getNodes(resp) IN
         call' = [call EXCEPT
                    ![c].gets = Append(@, [uri |-> call[c].uris[2], resp |-> resp]),
                    ![c].hostsWithFakeRack = r.nodes,
                    ![c].err = r.err,
                    ![c].pc = IF r.err # "nil" THEN "ck_done" ELSE "ck_base"]
    /\ UNCHANGED <<constructed, cfg, endpoint, initialNodes, idle, hist>>
    /\ UNCHANGED shared

CheckFeatureGetBaseAnyLength(c) ==
    /\ call[c].pc = "ck_base"
    /\ \E resp \in endpoint :
         LET r == getNodes(resp) IN
         call' = [call EXCEPT
                    ![c].gets = Append(@, [uri |-> call[c].uris[1], resp |-> resp]),
                    ![c].newNodes = r.nodes,
                    ![c].err = r.err,
                    ![c].supported =
                        /\ r.err = "nil"
                        /\ Len(call[c].hostsWithFakeRack) # Len(r.nodes),
                    ![c].pc = "ck_done"]
    /\ UNCHANGED <<constructed, cfg, endpoint, initialNodes, idle, hist>>
    /\ UNCHANGED shared

\* hostsWithoutRack, err := aln.getNodes(baseURI), and the returns after it
CheckFeatureGetBase(c) ==
    /\ call[c].pc = "ck_base"
    /\ \E resp \in endpoint :
         LET r == getNodes(resp) IN
         call' = [call EXCEPT
                    ![c].gets = Append(@, [uri |-> call[c].uris[1], resp |-> resp]),
                    ![c].newNodes = r.nodes,
                    ![c].err = IF r.err # "nil" THEN r.err
                               ELSE IF Len(r.nodes) = 0 THEN HostEmptyListError
                               ELSE "nil",
                    ![c].supported =
                        /\ r.err = "nil"
                        /\ Len(r.nodes) # 0
                        /\ Len(call[c].hostsWithFakeRack) # Len(r.nodes),
                    ![c].pc = "ck_done"]
    /\ UNCHANGED <<constructed, cfg, endpoint, initialNodes, idle, hist>>
    /\ UNCHANGED shared

\* the check returns to its caller
CheckReturn(c) ==
    /\ call[c].pc = "ck_done"
    /\ call' = [call EXCEPT ![c] = NoCall]
    /\ UNCHANGED <<constructed, cfg, endpoint, initialNodes, idle, hist>>
    /\ UNCHANGED shared

----------------------------------------------------------------------------
(* The idle updater goroutine: for { select { ... } }.  A select with      *)
(* several ready cases takes any one of them.                              *)

IdleExitContinue ==
    /\ idle.pc = "select"
    /\ ctxDone
    /\ UNCHANGED vars

\* case <-aln.ctx.Done(): return (the deferred t.Stop() ends the ticker)
IdleExit ==
    /\ idle.pc = "select"
    /\ ctxDone
    /\ idle' = [idle EXCEPT !.pc = "exited"]
    /\ UNCHANGED <<constructed, cfg, endpoint, initialNodes, call, hist>>
    /\ UNCHANGED shared

\* case <-t.C:
IdleTick ==
    /\ idle.pc = "select"
    /\ tickReady
    /\ tickReady' = FALSE
    /\ idle' = [NoIdle EXCEPT !.pc = "now", !.cause = "tick"]
    /\ UNCHANGED <<constructed, cfg, endpoint, initialNodes, liveNodes,
                   nextLiveNodeIdx, nextUpdate, idleUpdaterStarted, ctxDone,
                   updateSignal, now, call, hist>>

\* case <-aln.updateSignal:
IdleSignal ==
    /\ idle.pc = "select"
    /\ updateSignal > 0
    /\ updateSignal' = updateSignal - 1
    /\ idle' = [NoIdle EXCEPT !.pc = "now", !.cause = "signal"]
    /\ UNCHANGED <<constructed, cfg, endpoint, initialNodes, liveNodes,
                   nextLiveNodeIdx, nextUpdate, idleUpdaterStarted, ctxDone,
                   tickReady, now, call, hist>>

\* time.Now().UTC().Unix(), the argument of the Store
IdleNow ==
    /\ idle.pc = "now"
    /\ idle' = [idle EXCEPT !.current = now, !.pc = "store"]
    /\ UNCHANGED <<constructed, cfg, endpoint, initialNodes, call, hist>>
    /\ UNCHANGED shared

\* aln.nextUpdate.Store(... + int64(aln.cfg.UpdatePeriod.Seconds()))
IdleStore ==
    /\ idle.pc = "store"
    /\ nextUpdate' = idle.current + PeriodSeconds(cfg.UpdatePeriod)
    /\ idle' = [idle EXCEPT !.current = 0, !.pc = "load"]
    /\ UNCHANGED <<constructed, cfg, endpoint, initialNodes, liveNodes,
                   nextLiveNodeIdx, idleUpdaterStarted, ctxDone, updateSignal,
                   tickReady, now, call, hist>>

\* UpdateLiveNodes in the goroutine: nextNode's snapshot load
IdleLoad ==
    /\ idle.pc = "load"
    /\ idle' = [idle EXCEPT !.nodes = LoadNodes(liveNodes, initialNodes), !.pc = "add"]
    /\ UNCHANGED <<constructed, cfg, endpoint, initialNodes, call, hist>>
    /\ UNCHANGED shared

\* UpdateLiveNodes in the goroutine: nextNode's Add(1) and indexing
IdleAdd ==
    /\ idle.pc = "add"
    /\ nextLiveNodeIdx' = nextLiveNodeIdx + 1
    /\ LET i == SelectIndex(nextLiveNodeIdx', idle.nodes, liveNodes) IN
       /\ idle' = [idle EXCEPT
                  !.nodes = <<>>,
                  !.ret = IF i < Len(idle.nodes) THEN idle.nodes[i + 1] ELSE "",
                  !.pc = IF i >= Len(idle.nodes) THEN "panicked" ELSE "get"]
       /\ hist' = NoteSelection(hist, FALSE, idle.nodes, i)
    /\ UNCHANGED <<constructed, cfg, endpoint, initialNodes, liveNodes, nextUpdate,
                   idleUpdaterStarted, ctxDone, updateSignal, tickReady, now, call>>

\* UpdateLiveNodes in the goroutine: newNodes, err := aln.getNodes(...)
IdleGet ==
    /\ idle.pc = "get"
    /\ \E resp \in endpoint :
         LET r == getNodes(resp) IN
         idle' = [idle EXCEPT !.newNodes = r.nodes, !.err = r.err, !.pc = "publish"]
    /\ UNCHANGED <<constructed, cfg, endpoint, initialNodes, call, hist>>
    /\ UNCHANGED shared

IdlePublishOrExit ==
    /\ idle.pc = "publish"
    /\ LET r == [nodes |-> idle.newNodes, err |-> idle.err] IN
       /\ liveNodes' = Published(r, liveNodes)
       /\ call' = NotePublish(call, r)
       /\ hist' = [hist EXCEPT !.published = @ \/ ShouldPublish(r)]
    /\ idle' = [NoIdle EXCEPT !.pc = IF idle.err # "nil" THEN "exited" ELSE "select"]
    /\ UNCHANGED <<constructed, cfg, endpoint, initialNodes, nextLiveNodeIdx,
                   nextUpdate, idleUpdaterStarted, ctxDone, updateSignal, tickReady,
                   now>>

\* UpdateLiveNodes in the goroutine: the conditional Store; the returned
\* error is dropped and the loop is back at its select
IdlePublish ==
    /\ idle.pc = "publish"
    /\ LET r == [nodes |-> idle.newNodes, err |-> idle.err] IN
       /\ liveNodes' = Published(r, liveNodes)
       /\ call' = NotePublish(call, r)
       /\ hist' = [hist EXCEPT !.published = @ \/ ShouldPublish(r)]
    /\ idle' = [NoIdle EXCEPT !.pc = "select"]
    /\ UNCHANGED <<constructed, cfg, endpoint, initialNodes, nextLiveNodeIdx,
                   nextUpdate, idleUpdaterStarted, ctxDone, updateSignal, tickReady,
                   now>>

----------------------------------------------------------------------------
(* Environment *)

\* the ticker's period elapses: a tick is put in t.C unless one is waiting
TimerFires ==
    /\ idle.pc \notin {"none", "exited", "panicked"}
    /\ ~tickReady
    /\ hist.ticks < MaxTicks
    /\ tickReady' = TRUE
    /\ hist' = [hist EXCEPT !.ticks = @ + 1]
    /\ UNCHANGED <<constructed, cfg, endpoint, initialNodes, liveNodes,
                   nextLiveNodeIdx, nextUpdate, idleUpdaterStarted, ctxDone,
                   updateSignal, now, call, idle>>

\* the wall clock reaches the next second
ClockAdvance ==
    /\ constructed
    /\ now < MaxTime
    /\ now' = now + 1
    /\ UNCHANGED <<constructed, cfg, endpoint, initialNodes, liveNodes,
                   nextLiveNodeIdx, nextUpdate, idleUpdaterStarted, ctxDone,
                   updateSignal, tickReady, call, idle, hist>>

----------------------------------------------------------------------------
(* Specifications *)

\* the steps of a NextNode call
NextNodeStep(c) ==
    \/ NextNodeBegin(c)
    \/ TriggerLoad(c) \/ TriggerNow(c) \/ TriggerCAS(c) \/ TriggerSend(c)
    \/ NodeLoad(c) \/ NodeAdd(c) \/ Return(c)

\* the steps of an UpdateLiveNodes call that NextNode does not share
UpdateStep(c) == UpdateBegin(c) \/ UpdateGet(c) \/ UpdatePublish(c)

\* the steps of the two topology checks
CheckStep(c) ==
    \/ CheckSetBegin(c) \/ CheckFeatureBegin(c) \/ CheckAdd(c) \/ CheckLoad(c)
    \/ CheckSetGet(c) \/ CheckFeatureGetFake(c) \/ CheckFeatureGetBase(c)
    \/ CheckReturn(c)

IdleStep ==
    \/ IdleExit \/ IdleTick \/ IdleSignal \/ IdleNow \/ IdleStore
    \/ IdleLoad \/ IdleAdd \/ IdleGet \/ IdlePublish

\* The whole directory: every configuration, every operation.
Next ==
    \/ \E c \in Callers : NextNodeStep(c) \/ UpdateStep(c) \/ Start(c) \/ Stop(c)
    \/ \E c \in Callers : CheckStep(c)
    \/ IdleStep
    \/ TimerFires
    \/ ClockAdvance

Spec == Init /\ [][Next]_vars

\* A burst of operations within one second of the clock: every operation,
\* an endpoint that is down or answers any of the bodies, one refresh mode
\* enabled at a time or none (so no signal is ever received).
InitBurst ==
    InitWith(BootstrapInputs,
             {Config(Seconds(-1), 0), Config(0, Seconds(1)), Config(Seconds(1), 0)},
             Down \cup Answers, MaxOps, FALSE)

NextBurst ==
    \/ \E c \in Callers : NextNodeStep(c) \/ UpdateStep(c) \/ Start(c) \/ Stop(c)
    \/ IdleExit \/ IdleTick \/ IdleNow \/ IdleStore
    \/ IdleLoad \/ IdleAdd \/ IdleGet \/ IdlePublish
    \/ TimerFires

SpecBurst == InitBurst /\ [][NextBurst]_vars

\* The same burst with both refresh modes enabled, so that a refresh is
\* started by a call, by a tick and by a signal; the endpoint is down,
\* answers an empty list, or answers a list with one unparsable host.
InitSignal ==
    InitWith({<<>>, <<"n1">>}, {Config(Seconds(1), Seconds(1))},
             Down \cup {[kind |-> "ok", body |-> b] :
                            b \in {<<>>, <<"n2", BadHost, "n3">>}},
             MaxOps, FALSE)

NextSignal == NextBurst \/ IdleSignal

SpecSignal == InitSignal /\ [][NextSignal]_vars

\* Traffic over several seconds while the endpoint is down: NextNode and
\* Stop, active refresh enabled, with and without the idle updater.
InitClock ==
    InitWith({<<"n1", "n2">>},
             {Config(Seconds(1), ip) : ip \in {0, Seconds(1)}},
             Down, MaxOps, FALSE)

NextClock ==
    \/ \E c \in Callers : NextNodeStep(c) \/ Stop(c)
    \/ IdleStep
    \/ TimerFires
    \/ ClockAdvance

SpecClock == InitClock /\ [][NextClock]_vars

\* Selections only: NextNode and UpdateLiveNodes with both refresh modes
\* disabled, the selections recorded in cursor order.
InitRoundRobin ==
    InitWith({<<"n1">>, <<"n1", "n2">>}, {Config(0, 0)}, Down \cup Answers,
             MaxOps, TRUE)

NextRoundRobin ==
    \E c \in Callers :
        \/ NextNodeBegin(c) \/ NodeLoad(c) \/ NodeAdd(c) \/ Return(c)
        \/ UpdateStep(c)

SpecRoundRobin == InitRoundRobin /\ [][NextRoundRobin]_vars

\* The steps a caller takes once it is inside NextNode.
NextNodeRuns(c) ==
    \/ TriggerLoad(c) \/ TriggerNow(c) \/ TriggerCAS(c) \/ TriggerSend(c)
    \/ NodeLoad(c) \/ NodeAdd(c) \/ Return(c)

\* The steps of the idle updater between two selects; the GET returns.
IdleRuns ==
    IdleNow \/ IdleStore \/ IdleLoad \/ IdleAdd \/ IdleGet \/ IdlePublish

\* The scheduler runs every goroutine that can run, a discovery call in
\* flight returns, and a select takes a case that is ready again and again
\* (it picks among the ready cases at random).  Nothing obliges a caller to
\* start an operation or the ticker to tick.
Fairness ==
    /\ \A c \in Callers : WF_vars(NextNodeRuns(c))
    /\ WF_vars(IdleRuns)
    /\ SF_vars(IdleExit) /\ SF_vars(IdleTick) /\ SF_vars(IdleSignal)

\* Rack and datacenter set or not, both refresh modes disabled: the two
\* checks and UpdateLiveNodes against an endpoint that fails in each way or
\* answers any of the bodies.
RackDatacenterConfigs ==
    {WithALNDatacenter(WithALNRack(Config(0, 0), rack), datacenter) :
        rack \in {"", "rack1"}, datacenter \in {"", "dc1"}}

InitCheck == InitWith({<<"n1", "n2">>}, RackDatacenterConfigs, Responses, MaxOps, FALSE)

NextCheck ==
    \E c \in Callers :
        \/ CheckStep(c)
        \/ UpdateStep(c) \/ NodeAdd(c) \/ Return(c)

SpecCheck == InitCheck /\ [][NextCheck]_vars

\* Every kind of selection side by side: NextNode, UpdateLiveNodes, the two
\* checks and the idle updater's refresh on a tick, on a two-node bootstrap
\* list that a successful discovery replaces by a one-node list.
InitTargets ==
    InitWith({<<"n1", "n2">>}, {WithALNRack(Config(0, Seconds(1)), "rack1")},
             Down \cup {[kind |-> "ok", body |-> <<"n3">>]}, MaxOps, FALSE)

NextTargets ==
    \/ \E c \in Callers :
          \/ NextNodeBegin(c) \/ NodeLoad(c) \/ NodeAdd(c) \/ Return(c)
          \/ UpdateStep(c)
          \/ CheckStep(c)
    \/ IdleTick \/ IdleNow \/ IdleStore \/ IdleLoad \/ IdleAdd \/ IdleGet
    \/ IdlePublish
    \/ TimerFires

SpecTargets == InitTargets /\ [][NextTargets]_vars

\* Helper configurations: active refresh every second, the idle period
\* negative, zero, a fraction of a second, a second.
HelperConfigs ==
    {HelperConfig(Seconds(1), ip, "", "") : ip \in {Seconds(-1), 0, 1, Seconds(1)}}

\* A directory built by a helper: NewAlternatorLiveNodes on the options
\* converted from the helper's configuration.
InitHelper ==
    \E h \in HelperConfigs :
        LET r == NewAlternatorLiveNodes(<<"n1">>) IN
        /\ constructed = r.ok
        /\ cfg = ToALNConfig(h)
        /\ initialNodes = r.nodes
        /\ liveNodes = r.nodes
        /\ nextLiveNodeIdx = 0
        /\ nextUpdate = 0
        /\ idleUpdaterStarted = FALSE
        /\ ctxDone = FALSE
        /\ updateSignal = 0
        /\ tickReady = FALSE
        /\ now = 1
        /\ endpoint = Down
        /\ call = [k \in Callers |-> NoCall]
        /\ idle = NoIdle
        /\ hist = [History(MaxOps, FALSE) EXCEPT !.helper = <<h>>]

\* NextNode, Start and Stop on that directory, with its idle updater.
NextHelper ==
    \/ \E c \in Callers : NextNodeStep(c) \/ Start(c) \/ Stop(c)
    \/ IdleStep
    \/ TimerFires

SpecHelper == InitHelper /\ [][NextHelper]_vars

\* Active refresh enabled, with the idle updater and without it (idle period
\* zero or negative), under fair scheduling: NextNode, Start and Stop within one second of the clock,
\* the endpoint down.
InitLive ==
    InitWith({<<"n1">>},
             {Config(Seconds(1), ip) : ip \in {Seconds(-1), 0, Seconds(1)}},
             Down, MaxOps, FALSE)

NextLive ==
    \/ \E c \in Callers : NextNodeStep(c) \/ Start(c) \/ Stop(c)
    \/ IdleStep
    \/ TimerFires

SpecLive == InitLive /\ [][NextLive]_vars /\ Fairness

----------------------------------------------------------------------------
(* Properties *)

\* caller c has made its selection in NextNode and is about to return it
NextNodeDone(c) == call[c].pc = "done" /\ call[c].op = "NextNode"

\* caller c has finished a refresh whose discovery succeeded with no address
EmptyRefreshDone(c) ==
    /\ call[c].pc = "done"
    /\ call[c].op = "UpdateLiveNodes"
    /\ call[c].err = "nil"
    /\ call[c].newNodes = <<>>

\* C1: once NewAlternatorLiveNodes has succeeded, the published snapshot is
\* never empty, whatever the refreshes started by UpdateLiveNodes calls, by
\* ticks and by signals get from the endpoint (a failure, an empty list, a
\* list with a host that does not parse).
SnapshotNeverEmpty == constructed => Len(liveNodes) > 0

\* C1 is exercised: a refresh that got an empty list has finished while the
\* bootstrap list was the snapshot, after the idle updater was launched.
SnapshotNeverEmptyWitness ==
    \E c \in Callers :
        /\ EmptyRefreshDone(c)
        /\ liveNodes = initialNodes
        /\ idle.pc # "none"

\* C2: whatever replacements of the snapshot interleave with the selections,
\* no selection indexes past the end of the list it loaded (nothing panics),
\* and a NextNode call returns the element at its index, an address of a
\* snapshot that was published at some moment during the call.
SelectionInBounds ==
    /\ idle.pc # "panicked"
    /\ \A c \in Callers :
        /\ call[c].pc # "panicked"
        /\ call[c].pc \in {"get", "publish", "done"} =>
              call[c].idx < Len(call[c].nodes)
        /\ NextNodeDone(c) =>
              /\ call[c].ret = call[c].nodes[call[c].idx + 1]
              /\ call[c].ret \in call[c].avail

\* C2 is exercised: a NextNode call has selected from a list whose length
\* differs from that of the snapshot published while the call was running.
SelectionInBoundsWitness ==
    \E c \in Callers :
        /\ NextNodeDone(c)
        /\ call[c].pubDuring
        /\ Len(call[c].nodes) # Len(liveNodes)

\* the NextNode selections made against the snapshot nodes, in cursor order
SelectionsAgainst(nodes) ==
    SelectSeq(hist.log, LAMBDA e : e.nn /\ e.nodes = nodes)

\* how many of the selections in sel took position i
TimesSelected(sel, i) == Cardinality({j \in 1..Len(sel) : sel[j].idx = i})

\* C3: round-robin fairness: when N = k*M NextNode calls have selected from
\* one snapshot of size M, each address of that snapshot was returned k
\* times.
RoundRobinFair ==
    \A e \in Range(hist.log) :
        LET sel == SelectionsAgainst(e.nodes)
            M == Len(e.nodes)
        IN  Len(sel) % M = 0 =>
                \A i \in 0..(M - 1) : TimesSelected(sel, i) = Len(sel) \div M

\* C4: once a refresh has published a list and nothing is published after
\* it, a NextNode call that started after that publish returns an element
\* of that list.
ReturnsFromLastPublished ==
    \A c \in Callers :
        NextNodeDone(c) /\ hist.published /\ ~call[c].pubDuring =>
            call[c].ret \in Range(liveNodes)

\* C4 is exercised: a NextNode call that started after the last publish has
\* made its selection, and the snapshot is not the bootstrap list.
ReturnsFromLastPublishedWitness ==
    \E c \in Callers :
        /\ NextNodeDone(c)
        /\ hist.published
        /\ ~call[c].pubDuring
        /\ liveNodes # initialNodes

\* C5: the conditional Store of a refresh whose discovery succeeded with an
\* empty list leaves the snapshot as it was, in an UpdateLiveNodes call and
\* in the idle updater alike.
EmptyDiscoveryIsNoOp ==
    [][/\ \A c \in Callers :
            /\ call[c].pc = "publish"
            /\ call[c].err = "nil"
            /\ call[c].newNodes = <<>>
            /\ call'[c].pc = "done"
            => liveNodes' = liveNodes
       /\ /\ idle.pc = "publish"
          /\ idle.err = "nil"
          /\ idle.newNodes = <<>>
          /\ idle'.pc = "select"
          => liveNodes' = liveNodes]_vars

\* C5 is exercised: a refresh that got an empty list has finished after a
\* discovered list had replaced the bootstrap list, and that list stays.
EmptyDiscoveryIsNoOpWitness ==
    \E c \in Callers :
        /\ EmptyRefreshDone(c)
        /\ hist.published
        /\ liveNodes # initialNodes

\* C6: of the NextNode callers that observed the same expired deadline, one
\* only advances it and signals; the others go on without signalling.
SingleWinner ==
    /\ \A c \in Callers : call[c].sent => call[c].won
    /\ \A a, b \in Callers :
          a # b /\ call[a].won /\ call[b].won =>
              call[a].nextUpdate # call[b].nextUpdate

\* the clock time, in duration units, between the claims of two winners
ClaimDistance(a, b) ==
    LET d == call[a].current - call[b].current
    IN  Seconds(IF d >= 0 THEN d ELSE -d)

\* C7: with an active period P > 0, two successful claims of the deadline by
\* NextNode callers are more than P of clock time apart, also while the idle
\* updater resets the deadline.
ClaimsOncePerPeriod ==
    cfg.UpdatePeriod > 0 =>
        \A a, b \in Callers :
            a # b /\ call[a].won /\ call[b].won =>
                ClaimDistance(a, b) > cfg.UpdatePeriod

\* a step of caller c in a NextNode call
NextNodeStepTaken(c) ==
    /\ call'[c].pc # call[c].pc
    /\ call[c].op = "NextNode" \/ call'[c].op = "NextNode"

\* C8: with an active period <= 0, no step of a NextNode call changes the
\* deadline or the signal buffer, and the snapshot is changed only by the
\* Store of a refresh the idle updater started on a tick or of an
\* UpdateLiveNodes call.
NoActiveRefreshWhenDisabled ==
    [][cfg.UpdatePeriod <= 0 =>
        /\ \A c \in Callers :
              NextNodeStepTaken(c) =>
                  nextUpdate' = nextUpdate /\ updateSignal' = updateSignal
        /\ liveNodes' # liveNodes =>
              \/ idle.pc = "publish" /\ idle.cause = "tick" /\ idle'.pc = "select"
              \/ \E c \in Callers :
                    /\ call[c].op = "UpdateLiveNodes"
                    /\ call[c].pc = "publish"
                    /\ call'[c].pc = "done"]_vars

\* C8 is exercised: active refresh is disabled, a NextNode call has made its
\* selection from a discovered snapshot, and nothing was signalled.
NoActiveRefreshWhenDisabledWitness ==
    /\ cfg.UpdatePeriod <= 0
    /\ hist.published
    /\ updateSignal = 0
    /\ \E c \in Callers : NextNodeDone(c)

\* the steps a NextNode call has left, at most
StepsLeft(c) ==
    CASE call[c].pc = "tu_load" -> 7
      [] call[c].pc = "tu_now" -> 6
      [] call[c].pc = "tu_cas" -> 5
      [] call[c].pc = "tu_send" -> 4
      [] call[c].pc = "nn_load" -> 3
      [] call[c].pc = "nn_add" -> 2
      [] call[c].pc = "done" -> 1
      [] OTHER -> 0

\* caller c can go on, and what it has selected is an address of a
\* snapshot published during the call
CanGoOn(c) ==
    /\ call[c].op = "NextNode" => ENABLED NextNodeStep(c)
    /\ NextNodeDone(c) => call[c].ret \in call[c].avail

\* C9: NextNode never waits: in every state a caller inside NextNode can
\* take its next step whatever the other processes are doing (a discovery
\* in flight, the signal buffer full, the idle updater stopped or never
\* started), each of its steps leaves it fewer steps to take, at most 7 in
\* all, and what it returns is an address of a snapshot published during
\* the call.
NextNodeNeverWaits ==
    /\ [](\A c \in Callers : CanGoOn(c))
    /\ [][\A c \in Callers :
            NextNodeStepTaken(c) /\ call[c].op = "NextNode" =>
                StepsLeft(c) \in 1..7 /\ StepsLeft(c)' < StepsLeft(c)]_vars

\* C9 is exercised: a NextNode call won the claim, found the signal buffer
\* full, and went on to make its selection.
NextNodeNeverWaitsWitness ==
    \E c \in Callers :
        /\ NextNodeDone(c)
        /\ call[c].won
        /\ ~call[c].sent
        /\ updateSignal = 1

\* C10: at most one idle updater goroutine is launched, however the Start
\* and NextNode calls interleave.
OneIdleUpdater == hist.launched <= 1

\* C10 is exercised: the goroutine is launched and two NextNode calls, both
\* of which ran startIdleUpdater, are in flight.
OneIdleUpdaterWitness ==
    /\ hist.launched = 1
    /\ \A c \in Callers : call[c].op = "NextNode"

\* C11: once Stop has returned, the idle updater starts no new refresh: it
\* takes neither a tick nor a buffered signal out of its select.
NoRefreshAfterStop ==
    [][ctxDone => ~(idle.pc = "select" /\ idle'.pc = "now")]_vars

\* C12: once Stop has been called the idle updater, if it is running or is
\* launched later by Start or NextNode, eventually terminates (fair
\* scheduling, a discovery call in flight returns).
IdleUpdaterTerminates ==
    (ctxDone /\ idle.pc # "none") ~> (idle.pc = "exited")

\* C12 is exercised: the idle updater took a tick, ran its refresh, and
\* terminated after Stop.
IdleUpdaterTerminatesWitness ==
    /\ ctxDone
    /\ idle.pc = "exited"
    /\ hist.ticks = 1
    /\ ~tickReady

\* C13: Stop can be called whenever a caller can call anything (before Start,
\* before any NextNode, after a previous Stop) and completes; it leaves the
\* snapshot, the cursor and the deadline unchanged, and a Stop after a Stop
\* changes nothing of the directory at all.
StopIsSafe ==
    /\ [](\A c \in Callers : CanBegin(c) => ENABLED Stop(c))
    /\ [][\A c \in Callers : Stop(c) =>
            /\ UNCHANGED <<liveNodes, nextLiveNodeIdx, nextUpdate>>
            /\ ctxDone =>
                 UNCHANGED <<constructed, cfg, initialNodes, liveNodes,
                             nextLiveNodeIdx, nextUpdate, idleUpdaterStarted,
                             ctxDone, updateSignal, tickReady, call, idle>>]_vars

\* C13 is exercised: Stop was called twice on a directory with an idle period,
\* before any Start, NextNode or UpdateLiveNodes.
StopIsSafeWitness ==
    /\ ctxDone
    /\ hist.ops >= 2
    /\ cfg.IdleUpdatePeriod > 0
    /\ ~idleUpdaterStarted
    /\ idle.pc = "none"
    /\ nextLiveNodeIdx = 0
    /\ \A c \in Callers : call[c].pc = "idle"

\* C14: construction on an empty bootstrap list fails and yields no directory
\* (nothing can be called); construction on a non-empty list of valid hosts
\* succeeds, the snapshot is the bootstrap list in order, and as long as no
\* refresh has published, NextNode returns one of the bootstrap addresses.
ConstructionContract ==
    /\ ~NewAlternatorLiveNodes(<<>>).ok
    /\ \A input \in BootstrapInputs :
          (input # <<>> /\ \A i \in 1..Len(input) : ParseOK(input[i])) =>
             /\ NewAlternatorLiveNodes(input).ok
             /\ NewAlternatorLiveNodes(input).nodes = input
    /\ ~constructed =>
          /\ hist.ops = 0
          /\ \A c \in Callers : call[c].pc = "idle"
          /\ idle.pc = "none"
    /\ (constructed /\ ~hist.published) =>
          /\ initialNodes \in BootstrapInputs \ {<<>>}
          /\ liveNodes = initialNodes
          /\ \A c \in Callers :
                NextNodeDone(c) => call[c].ret \in Range(initialNodes)

\* C14 is exercised: a directory built on two hosts returns the second one
\* from NextNode while a discovery call is still in flight.
ConstructionContractWitness ==
    /\ constructed
    /\ ~hist.published
    /\ liveNodes = <<"n1", "n2">>
    /\ \E c, d \in Callers :
          /\ NextNodeDone(c)
          /\ call[c].ret = "n2"
          /\ call[d].op = "UpdateLiveNodes"
          /\ call[d].pc = "get"

\* What the server reads for one parameter of a query: the value that follows
\* the key at the start of the query or after a separator, "" when absent.
ParamValue(query, key) ==
    LET at == {i \in 1..(Len(query) - 1) :
                  query[i] = key /\ (i = 1 \/ query[i - 1] = "&")}
    IN  IF at = {} THEN "" ELSE query[(CHOOSE i \in at : TRUE) + 1]

\* caller c is about to return from CheckIfRackAndDatacenterSetCorrectly
CheckSetDone(c) == call[c].op = "CheckSet" /\ call[c].pc = "ck_done"

\* caller c is about to return from CheckIfRackDatacenterFeatureIsSupported
CheckFeatureDone(c) == call[c].op = "CheckFeature" /\ call[c].pc = "ck_done"

\* C15: with rack and datacenter both unset the check issues no discovery call
\* and returns success; otherwise it issues exactly one GET of /localnodes whose
\* query carries the configured rack and datacenter, and returns an error
\* exactly when the list it got is empty (a failed call yields no list).
RackDatacenterCheck ==
    \A c \in Callers : call[c].op = "CheckSet" =>
        /\ Len(call[c].gets) <= 1
        /\ (cfg.Rack = "" /\ cfg.Datacenter = "") =>
              /\ call[c].gets = <<>>
              /\ call[c].pc = "ck_done"
              /\ call[c].err = "nil"
        /\ (CheckSetDone(c) /\ ~(cfg.Rack = "" /\ cfg.Datacenter = "")) =>
              /\ Len(call[c].gets) = 1
              /\ call[c].gets[1].uri.path = "/localnodes"
              /\ ParamValue(call[c].gets[1].uri.query, "rack=") = cfg.Rack
              /\ ParamValue(call[c].gets[1].uri.query, "dc=") = cfg.Datacenter
              /\ call[c].err # "nil" <=>
                    getNodes(call[c].gets[1].resp).nodes = <<>>

\* C15 is exercised: with rack and datacenter both configured the check got a
\* non-empty list (one host of the body did not parse) and returns success.
RackDatacenterCheckWitness ==
    \E c \in Callers :
        /\ CheckSetDone(c)
        /\ cfg.Rack = "rack1"
        /\ cfg.Datacenter = "dc1"
        /\ call[c].err = "nil"
        /\ call[c].gets[1].resp.body = <<"n2", BadHost, "n3">>

\* C16: the probe returns (true, nil) exactly when both calls succeed, the
\* unscoped list is non-empty and the fake-rack list has another length;
\* (false, nil) exactly when both succeed with equal non-zero lengths; an
\* error (and false) exactly when a call fails or the unscoped list is empty.
\* The first GET carries rack=fakeRack, the second no query.
FeatureProbe ==
    \A c \in Callers : CheckFeatureDone(c) =>
        LET gets == call[c].gets
            fake == getNodes(gets[1].resp)
            base == getNodes(gets[2].resp)
            bothOK == Len(gets) = 2 /\ fake.err = "nil" /\ base.err = "nil"
        IN  /\ Len(gets) \in {1, 2}
            /\ ParamValue(gets[1].uri.query, "rack=") = "fakeRack"
            /\ Len(gets) = 2 => gets[2].uri.query = <<>>
            /\ Len(gets) = 1 => fake.err # "nil"
            /\ (call[c].supported /\ call[c].err = "nil") <=>
                  (bothOK /\ base.nodes # <<>> /\ Len(fake.nodes) # Len(base.nodes))
            /\ (~call[c].supported /\ call[c].err = "nil") <=>
                  (bothOK /\ Len(base.nodes) # 0 /\ Len(fake.nodes) = Len(base.nodes))
            /\ call[c].err # "nil" <=> (~bothOK \/ base.nodes = <<>>)
            /\ call[c].err # "nil" => ~call[c].supported

\* C16 is exercised: the fake-rack call returned one host, the unscoped call
\* two, and the probe reports the feature as supported.
FeatureProbeWitness ==
    \E c \in Callers :
        /\ CheckFeatureDone(c)
        /\ call[c].supported
        /\ call[c].err = "nil"
        /\ Len(call[c].hostsWithFakeRack) = 1
        /\ Len(call[c].newNodes) = 2

\* C17: an UpdateLiveNodes call issues exactly one GET; when that GET fails
\* (transport error, status other than 200, malformed body) the call returns
\* an error, its own store step leaves the snapshot as it is, and unless some
\* other refresh published meanwhile the snapshot is the one the call found.
UpdateFailureIsNoOp ==
    /\ [](\A c \in Callers : call[c].op = "UpdateLiveNodes" =>
            /\ Len(call[c].gets) <= 1
            /\ call[c].pc \in {"publish", "done"} =>
                  /\ Len(call[c].gets) = 1
                  /\ call[c].err = getNodes(call[c].gets[1].resp).err
                  /\ call[c].gets[1].resp \in Failures => call[c].err # "nil"
            /\ (call[c].pc = "done" /\ call[c].err # "nil" /\ ~call[c].pubDuring) =>
                  Range(liveNodes) = call[c].avail)
    /\ [][\A c \in Callers :
            (/\ call[c].op = "UpdateLiveNodes"
             /\ call[c].pc = "publish"
             /\ call[c].err # "nil"
             /\ call'[c].pc # "publish") =>
                /\ liveNodes' = liveNodes
                /\ call'[c].pc = "done"
                /\ call'[c].err = call[c].err]_vars

\* C17 is exercised: after an earlier refresh had replaced the bootstrap list,
\* an UpdateLiveNodes call got a malformed body and is about to return the
\* error, the snapshot still being the replaced one.
UpdateFailureIsNoOpWitness ==
    \E c \in Callers :
        /\ call[c].op = "UpdateLiveNodes"
        /\ call[c].pc = "done"
        /\ call[c].err = "badjson"
        /\ ~call[c].pubDuring
        /\ hist.published
        /\ liveNodes # initialNodes

\* C18: a failed refresh does not end the idle updater.  It terminates only
\* after Stop, a failed refresh brings it back to its select, and as long as
\* Stop is not called a waiting tick and a buffered signal are each followed
\* by a refresh of that cause reaching its discovery call (fair scheduling).
IdleSurvivesFailure ==
    /\ [](idle.pc = "exited" => ctxDone)
    /\ [](idle.pc # "panicked")
    /\ [][(idle.pc = "publish" /\ idle.err # "nil" /\ idle'.pc # "publish")
             => idle'.pc = "select"]_vars
    /\ (tickReady /\ idle.pc # "none")
          ~> (ctxDone \/ (idle.cause = "tick" /\ idle.pc = "get"))
    /\ (updateSignal > 0 /\ idle.pc # "none")
          ~> (ctxDone \/ (idle.cause = "signal" /\ idle.pc = "get"))

\* C18 is exercised: the refresh started by the tick has failed, and the
\* idle updater, not stopped, is in the discovery call of a refresh started
\* by a signal.
IdleSurvivesFailureWitness ==
    /\ ~ctxDone
    /\ endpoint = Down
    /\ hist.ticks = 1
    /\ ~tickReady
    /\ idle.cause = "signal"
    /\ idle.pc = "get"

\* C19: with an idle period of zero or less no call of Start or NextNode
\* launches the idle updater, and the started flag stays false.
IdleDisabledNeverLaunches ==
    cfg.IdleUpdatePeriod <= 0 =>
        /\ ~idleUpdaterStarted
        /\ idle.pc = "none"
        /\ hist.launched = 0

\* C19 is exercised: with a negative idle period, Start and two NextNode
\* calls have completed (three operations, no Stop, the cursor at 2).
IdleDisabledNeverLaunchesWitness ==
    /\ cfg.IdleUpdatePeriod < 0
    /\ ~ctxDone
    /\ hist.ops = 3
    /\ nextLiveNodeIdx = 2
    /\ \A c \in Callers : call[c].pc = "idle"

\* C20: whenever a NextNode call has won the deadline claim and Stop is not
\* called, a discovery call is eventually performed (fair scheduling).
WonClaimIsRefreshed ==
    \A c \in Callers :
        (call[c].pc = "tu_send" /\ call[c].won /\ ~ctxDone)
            ~> (ctxDone \/ idle.pc = "get")

\* the idle updater has taken a tick and finished the refresh it started on it
TickRefreshDone ==
    /\ hist.ticks >= 1
    /\ ~tickReady
    /\ idle.pc = "select"

\* C21: on a tick the idle updater stores the deadline t + P (t the clock it
\* read, P > 0 the active period) before it refreshes, and once it has
\* refreshed on a tick it starts no refresh on a signal while the clock is
\* before the deadline.
TickRefreshSuppressesSignal ==
    [][/\ (idle.pc = "store" /\ idle'.pc = "load" /\ idle.cause = "tick") =>
              nextUpdate' = idle.current + PeriodSeconds(cfg.UpdatePeriod)
       /\ (cfg.UpdatePeriod > 0 /\ TickRefreshDone /\ now < nextUpdate) =>
              ~(idle'.pc = "now" /\ idle'.cause = "signal")]_vars

\* C22: the two discovery calls of the feature probe, the one with
\* rack=fakeRack and the unscoped one, are sent to the same node.
ProbeSameTarget ==
    \A c \in Callers :
        (call[c].op = "CheckFeature" /\ Len(call[c].gets) = 2) =>
            call[c].gets[1].uri.host = call[c].gets[2].uri.host

\* C23: when the discovery call of CheckIfRackAndDatacenterSetCorrectly
\* fails, the check returns the very error getNodes returned.
CheckReturnsErrorAsIs ==
    \A c \in Callers :
        (CheckSetDone(c) /\ Len(call[c].gets) = 1
            /\ getNodes(call[c].gets[1].resp).err # "nil") =>
                call[c].err = getNodes(call[c].gets[1].resp).err

\* C24: converting a helper configuration to the directory's configuration
\* preserves the idle period, for every value; with the helper's idle period
\* zero the directory's idle period is zero or less and no idle updater is
\* ever launched.
IdlePeriodConverted ==
    \A i \in 1..Len(hist.helper) :
        /\ cfg.IdleUpdatePeriod = hist.helper[i].IdleNodesListUpdatePeriod
        /\ hist.helper[i].IdleNodesListUpdatePeriod = 0 =>
              /\ cfg.IdleUpdatePeriod <= 0
              /\ hist.launched = 0
              /\ ~idleUpdaterStarted

\* the list a selection of caller c indexes, and the node it ends up with
SelectedBy(c) ==
    IF call'[c].pc \in {"ck_get", "ck_load", "ck_fake"}
    THEN call'[c].uris[Len(call'[c].uris)].host
    ELSE call'[c].ret

\* a selection step taken by caller c (NextNode, UpdateLiveNodes or a check)
SelectionStep(c) ==
    /\ call[c].pc \in {"nn_add", "ck_add"}
    /\ call'[c].pc # call[c].pc

\* C25: every selection made for a discovery call (UpdateLiveNodes, the idle
\* updater's refresh, each URL of the two checks) is the step a NextNode call
\* makes: the shared cursor advances by exactly one and the target is the
\* node at the new cursor value modulo the length of the snapshot the call
\* loaded, which is the published one unless a refresh published since; the
\* GET is then sent to that target.
DiscoveryIsRoundRobin ==
    /\ [](\A c \in Callers :
            /\ (call[c].op = "UpdateLiveNodes" /\ Len(call[c].gets) = 1) =>
                  call[c].gets[1].uri.host = call[c].ret
            /\ (call[c].op = "CheckSet" /\ Len(call[c].gets) = 1) =>
                  call[c].gets[1].uri = call[c].uris[1]
            /\ (call[c].op = "CheckFeature" /\ Len(call[c].gets) >= 1) =>
                  call[c].gets[1].uri = call[c].uris[2]
            /\ (call[c].op = "CheckFeature" /\ Len(call[c].gets) = 2) =>
                  call[c].gets[2].uri = call[c].uris[1])
    /\ [][/\ \A c \in Callers : SelectionStep(c) =>
                /\ nextLiveNodeIdx' = nextLiveNodeIdx + 1
                /\ Len(call[c].nodes) > 0
                /\ SelectedBy(c) =
                      call[c].nodes[(nextLiveNodeIdx' % Len(call[c].nodes)) + 1]
                /\ ~call[c].pubDuring => call[c].nodes = liveNodes
          /\ (idle.pc = "add" /\ idle'.pc # "add") =>
                /\ nextLiveNodeIdx' = nextLiveNodeIdx + 1
                /\ Len(idle.nodes) > 0
                /\ idle'.ret = idle.nodes[(nextLiveNodeIdx' % Len(idle.nodes)) + 1]]_vars

\* C25 is exercised: after a refresh replaced the snapshot, a probe has sent
\* both its calls while the idle updater is in a discovery call of its own.
DiscoveryIsRoundRobinWitness ==
    /\ hist.published
    /\ idle.pc = "get"
    /\ \E c \in Callers :
          /\ call[c].op = "CheckFeature"
          /\ Len(call[c].gets) = 2

\* the bare hosts a snapshot may hold: no path, no query
Hosts ==
    UNION {Range(b) : b \in BootstrapInputs \cup DiscoveryBodies} \ {BadHost}

\* the query caller c's k-th URL was asked to carry
QueryGiven(c, k) ==
    IF call[c].op = "CheckSet" THEN LocalNodesQuery(cfg.Rack, cfg.Datacenter)
    ELSE IF k = 1 THEN <<>>
    ELSE FakeRackQuery

\* C26: a URL built from the next node has that node as its host and exactly
\* the given path and query; building it changes neither the published
\* snapshot nor the bootstrap list, whose entries stay bare hosts, so that
\* NextNode keeps returning them without path or query.
URLBuildingIsPure ==
    /\ [](/\ Range(liveNodes) \subseteq Hosts
          /\ Range(initialNodes) \subseteq Hosts
          /\ \A c \in Callers :
                /\ NextNodeDone(c) => call[c].ret \in Hosts
                /\ \A k \in 1..Len(call[c].uris) :
                      /\ call[c].uris[k].host \in Hosts
                      /\ call[c].uris[k].path = "/localnodes"
                      /\ call[c].uris[k].query = QueryGiven(c, k))
    /\ [][\A c \in Callers :
            (call[c].pc = "ck_add" /\ call'[c].pc # "ck_add") =>
                /\ liveNodes' = liveNodes
                /\ initialNodes' = initialNodes
                /\ Len(call'[c].uris) = Len(call[c].uris) + 1
                /\ call'[c].uris[Len(call'[c].uris)].host =
                      call[c].nodes[call'[c].idx + 1]]_vars

\* C26 is exercised: a probe has built both its URLs, the second with the
\* fake-rack query, on the one node of a replaced snapshot, and a NextNode
\* call returns that same node.
URLBuildingIsPureWitness ==
    \E c, d \in Callers :
        /\ NextNodeDone(c)
        /\ call[c].ret = "n3"
        /\ call[d].op = "CheckFeature"
        /\ Len(call[d].uris) = 2
        /\ call[d].uris[1].host = "n3"
        /\ call[d].uris[2].host = "n3"

\* C27: the published snapshot is at every moment the bootstrap list or the
\* complete list of one successful, non-empty discovery call; it changes only
\* in the store step of a refresh, to exactly that refresh's list, and a
\* refresh that stores a list leaves exactly its list published (the last
\* store wins).
SnapshotIsOneResult ==
    /\ [](\/ liveNodes = initialNodes
          \/ \E resp \in endpoint :
                /\ getNodes(resp).err = "nil"
                /\ getNodes(resp).nodes # <<>>
                /\ liveNodes = getNodes(resp).nodes)
    /\ [][/\ liveNodes' # liveNodes =>
                \/ \E c \in Callers :
                      /\ call[c].pc = "publish" /\ call'[c].pc = "done"
                      /\ liveNodes' = call[c].newNodes
                \/ /\ idle.pc = "publish" /\ idle'.pc = "select"
                   /\ liveNodes' = idle.newNodes
          /\ \A c \in Callers :
                (/\ call[c].pc = "publish" /\ call'[c].pc = "done"
                 /\ call[c].err = "nil" /\ call[c].newNodes # <<>>) =>
                    liveNodes' = call[c].newNodes
          /\ (/\ idle.pc = "publish" /\ idle'.pc = "select"
              /\ idle.err = "nil" /\ idle.newNodes # <<>>) =>
                    liveNodes' = idle.newNodes]_vars

\* C27 is exercised: an UpdateLiveNodes call has published its one-node list
\* and has not returned yet, and the snapshot is already the two-node list of
\* a refresh that published after it.
SnapshotIsOneResultWitness ==
    /\ liveNodes = <<"n2", "n3">>
    /\ \E c \in Callers :
          /\ call[c].op = "UpdateLiveNodes"
          /\ call[c].pc = "done"
          /\ call[c].err = "nil"
          /\ call[c].newNodes = <<"n3">>

\* C28: with an active period of zero or more (the clock never goes back),
\* no step replaces the refresh deadline by a smaller value.
DeadlineNeverDecreases ==
    [][cfg.UpdatePeriod >= 0 => nextUpdate' >= nextUpdate]_vars

\* a step of caller c inside one of the two checks
CheckStepTaken(c) ==
    /\ call'[c].pc # call[c].pc
    /\ call[c].op \in {"CheckSet", "CheckFeature"}
          \/ call'[c].op \in {"CheckSet", "CheckFeature"}

\* C29: no step of either check changes the published snapshot, the refresh
\* deadline or the started flag (nor the bootstrap list, the signal buffer or
\* the context), whatever the endpoint returns; of the shared state a check
\* changes the cursor only, by one per URL it builds.
ChecksOnlyMoveCursor ==
    [][\A c \in Callers : CheckStepTaken(c) =>
          /\ UNCHANGED <<liveNodes, nextUpdate, idleUpdaterStarted, initialNodes,
                         updateSignal, ctxDone, tickReady, cfg, idle>>
          /\ nextLiveNodeIdx' =
                nextLiveNodeIdx + Len(call'[c].uris) - Len(call[c].uris)
                \/ call'[c].pc = "idle"]_vars

\* C29 is exercised: a check got a non-empty list from the endpoint and is
\* about to return success, and the snapshot is still the bootstrap list.
ChecksOnlyMoveCursorWitness ==
    /\ ~hist.published
    /\ liveNodes = initialNodes
    /\ \E c \in Callers :
          /\ CheckSetDone(c)
          /\ call[c].err = "nil"
          /\ call[c].newNodes = <<"n2", "n3">>

====
